---------------------------- MODULE Spec2Model ----------------------------
(***************************************************************************)
(* Process table, per-core scheduler loop, sched, yielding and sleep of    *)
(* kernel/src/process/{process.rs,scheduler.rs}.                           *)
(*                                                                         *)
(* Every slot of PROC_MANAGER.proc is a Spinlock<Process> (the table lock  *)
(* of the slot), and the Process inside it holds a second lock,            *)
(* Process.data : Spinlock<ProcData>.  scheduler() and procinit() take the *)
(* first, yielding() and sleep() take the second.  The two are modelled as *)
(* the two lock words they are.                                            *)
(*                                                                         *)
(* Spinlock, Cpu (push_off / pop_off, the nesting counter noff, intena),   *)
(* swtch, the page allocator and the address-space component are not part  *)
(* of the two source files; they are modelled at their boundary.           *)
(***************************************************************************)
EXTENDS Integers, FiniteSets, Sequences, TLC

\* ------------------------------------------------------------------ bounds
\* number of simulated cores
NCPU == 2
\* number of slots of the process table (param::NPROC)
NPROC == 2
\* lowest value -MaxDrift the model follows a core's nesting counter to
MaxDrift == 4
\* user memory sizes are 0..MaxSize, growproc deltas -MaxSize..MaxSize
MaxSize == 3
\* width in bits the model gives usize
UsizeBits == 6

Cores == 0 .. (NCPU - 1)
Slots == 0 .. (NPROC - 1)
\* the channels a process may sleep on (0 is "not sleeping")
Channels == {1}
\* the core that boots the kernel and runs procinit
BootCpu == 0
\* Option::None for Cpu.proc and for ProcData.parent
None == -1

\* ----------------------------------------------------------- memory layout
\* size_of::<Spinlock<Process>>() and the offset of the Process inside it,
\* in model units
SlotStride == 8
DataOffset == 2
\* PGSIZE in the same units: a kernel stack is a whole number of pages
PGSIZE == 128

VARIABLES
    proc,       \* PROC_MANAGER.proc[i].data: the ProcData of slot i
    plock,      \* PROC_MANAGER.proc[i]: Spinlock<Process>, its holder or None
    dlock,      \* Process.data: Spinlock<ProcData>, its holder or None
    lk,         \* the external lock handed to sleep, its holder or None
    cpu,        \* per-core state: proc, noff, intena, sie, pc, idx
    frame,      \* locals of sched() kept on the parked thread's stack
    wk,         \* the external wakeup in progress
    phase,      \* "procinit", "userinit", "run"
    panicked,   \* diagnostic of the fatal path taken, or "none"
    heap,       \* allocator bookkeeping: kfree and proc_freepagetable calls
    ret         \* result of the last ProcData operation

vars == <<proc, plock, dlock, lk, cpu, frame, wk, phase, panicked, heap, ret>>

\* ---------------------------------------------------------------- ProcData
\* Context::new(): the zeroed register block
ContextNew == "zero"

\* ProcData::new()
ProcDataNew ==
    [ state     |-> "UNUSED",
      channel   |-> 0,
      killed    |-> 0,
      xstate    |-> 0,
      pid       |-> 0,
      parent    |-> None,
      kstack    |-> 0,
      size      |-> 0,
      pagetable |-> FALSE,
      trapframe |-> 0,
      context   |-> ContextNew ]

\* the physical page backing the trapframe of slot i (never 0)
TrapframePage(i) == 100 + i

\* ------------------------------------------------------- Spinlock boundary
\* push_off: disable interrupts, remember the previous enable flag on the
\* outermost acquisition, count the nesting
push_off(c) ==
    [ c EXCEPT !.sie = FALSE,
               !.intena = IF c.noff = 0 THEN c.sie ELSE c.intena,
               !.noff = c.noff + 1 ]

\* pop_off: count down, re-enable interrupts when the count reaches 0 and
\* they were enabled before the outermost acquisition
pop_off(c) ==
    [ c EXCEPT !.noff = c.noff - 1,
               !.sie = IF c.noff - 1 = 0 /\ c.intena THEN TRUE ELSE c.sie ]

\* the counter stays inside the range the model follows
InRange(c) == cpu[c].noff > -MaxDrift /\ cpu[c].noff < MaxDrift

\* no core has taken a fatal path (panic! halts the kernel)
Alive == panicked = "none"

\* ------------------------------------------------------------------- Init
HeapNew == [ kfree |-> [i \in Slots |-> 0], ptfree |-> [i \in Slots |-> 0] ]

CpuNew ==
    [ proc |-> None, noff |-> 0, intena |-> FALSE, sie |-> FALSE,
      pc |-> "start", idx |-> 0 ]

\* the locals of sched() of a thread that is not inside sched()
FrameNew == [ my_cpu |-> 0, intena |-> FALSE ]

WkIdle == [ on |-> FALSE, chan |-> 0, idx |-> 0, after |-> {} ]

\* no ProcData operation was called yet
\* no address space: no page-table page allocated, nothing mapped
NoSpace == [ tables |-> FALSE, maps |-> {} ]

RetNone == [ op |-> "none", slot |-> 0, n |-> 0, r |-> "none",
             before |-> ProcDataNew, heap |-> HeapNew, space |-> NoSpace ]

\* ProcManager::new(): every slot a fresh descriptor, every lock free; the
\* cores have not started, interrupts are off
Init ==
    /\ proc = [i \in Slots |-> ProcDataNew]
    /\ plock = [i \in Slots |-> None]
    /\ dlock = [i \in Slots |-> None]
    /\ lk = None
    /\ cpu = [c \in Cores |-> CpuNew]
    /\ frame = [i \in Slots |-> FrameNew]
    /\ wk = WkIdle
    /\ phase = "procinit"
    /\ panicked = "none"
    /\ heap = HeapNew
    /\ ret = RetNone

\* ------------------------------------------------------------------- boot
\* address of the Process of slot i minus the address of the table
KstackOf(i) == i * SlotStride + DataOffset

\* ProcManager::procinit, one iteration of its loop on the boot core:
\* p.acquire(); set_kstack; p.release(); drop(guard)
procinit ==
    /\ Alive /\ phase = "procinit"
    /\ LET i  == cpu[BootCpu].idx
           c0 == push_off(cpu[BootCpu])
           c1 == pop_off(c0)
           c2 == pop_off(c1)
       IN /\ plock[i] = None
          /\ proc' = [proc EXCEPT ![i].kstack = KstackOf(i)]
          /\ plock' = [plock EXCEPT ![i] = None]
          /\ cpu' = [cpu EXCEPT ![BootCpu] =
                        [c2 EXCEPT !.idx = (i + 1) % NPROC]]
          /\ phase' = IF i = NPROC - 1 THEN "userinit" ELSE phase
    /\ UNCHANGED <<dlock, lk, frame, wk, panicked, heap, ret>>

\* what the external creation and exit paths leave in a slot before the
\* cores start scheduling: nothing, a new runnable process, or a zombie
Created(d, i, kind) ==
    CASE kind = "RUNNABLE" ->
           [d EXCEPT !.state = "RUNNABLE", !.pid = i + 1, !.size = 1,
                     !.pagetable = TRUE, !.trapframe = TrapframePage(i),
                     !.context = "entry"]
      [] kind = "ZOMBIE" ->
           [d EXCEPT !.state = "ZOMBIE", !.pid = i + 1, !.size = 1,
                     !.xstate = 1, !.pagetable = TRUE,
                     !.trapframe = TrapframePage(i), !.context = "exit"]
      [] OTHER -> d

Kinds == {"UNUSED", "RUNNABLE", "ZOMBIE"}

userinit ==
    /\ Alive /\ phase = "userinit"
    /\ \E k \in [Slots -> Kinds] :
          proc' = [i \in Slots |-> Created(proc[i], i, k[i])]
    /\ phase' = "run"
    /\ UNCHANGED <<plock, dlock, lk, cpu, frame, wk, panicked, heap, ret>>

\* --------------------------------------------------------------- scheduler
\* where swtch resumes a thread whose saved context is ctx
ResumePc(ctx) ==
    CASE ctx = "yielding" -> "y_ret"
      [] ctx = "sleep"    -> "s_ret"
      [] OTHER            -> "run"

\* scheduler(), before the loop: c.set_proc(None), and the first intr_on()
scheduler_start(c) ==
    /\ Alive /\ phase = "run" /\ cpu[c].pc = "start"
    /\ cpu' = [cpu EXCEPT ![c] =
                  [@ EXCEPT !.proc = None, !.sie = TRUE, !.idx = 0,
                            !.pc = "scan"]]
    /\ UNCHANGED <<proc, plock, dlock, lk, frame, wk, phase, panicked,
                   heap, ret>>

\* a scheduler that also switches into a slot that is asleep
Selectable_asleep(d) == d.state \in {"RUNNABLE", "SLEEPING"}

\* the state scheduler() tests a slot for before switching into it
Selectable(d) == d.state = "RUNNABLE"

\* scheduler(), one slot of the scan: p.acquire(); if the slot is RUNNABLE
\* mark it RUNNING, record it as the core's process and swtch into its
\* context with the slot's lock held; otherwise drop(guard) at once
scheduler_scan(c) ==
    /\ Alive /\ phase = "run" /\ cpu[c].pc = "scan" /\ InRange(c)
    /\ LET i  == cpu[c].idx
           c0 == push_off(cpu[c])
       IN /\ plock[i] = None
          /\ IF Selectable(proc[i])
             THEN /\ proc' = [proc EXCEPT ![i].state = "RUNNING"]
                  /\ plock' = [plock EXCEPT ![i] = c]
                  /\ cpu' = [cpu EXCEPT ![c] =
                               [c0 EXCEPT !.proc = i,
                                          !.pc = ResumePc(proc[i].context)]]
             ELSE /\ proc' = proc
                  /\ plock' = [plock EXCEPT ![i] = None]
                  /\ cpu' = [cpu EXCEPT ![c] =
                               [pop_off(c0) EXCEPT !.pc = "release"]]
    /\ UNCHANGED <<dlock, lk, frame, wk, phase, panicked, heap, ret>>

\* scheduler(), back from swtch: c.set_proc(None); drop(guard)
scheduler_return(c) ==
    /\ Alive /\ cpu[c].pc = "sret" /\ InRange(c)
    /\ plock' = [plock EXCEPT ![cpu[c].idx] = None]
    /\ cpu' = [cpu EXCEPT ![c] =
                  [pop_off(cpu[c]) EXCEPT !.proc = None, !.pc = "release"]]
    /\ UNCHANGED <<proc, dlock, lk, frame, wk, phase, panicked, heap, ret>>

\* scheduler(), end of the slot: p.release(), after the guard was dropped;
\* then the next slot, or intr_on() and the next pass
scheduler_release(c) ==
    /\ Alive /\ cpu[c].pc = "release" /\ InRange(c)
    /\ plock' = [plock EXCEPT ![cpu[c].idx] = None]
    /\ LET c0   == pop_off(cpu[c])
           last == cpu[c].idx = NPROC - 1
       IN cpu' = [cpu EXCEPT ![c] =
                    [c0 EXCEPT !.idx = IF last THEN 0 ELSE cpu[c].idx + 1,
                               !.sie = IF last THEN TRUE ELSE c0.sie,
                               !.pc = "scan"]]
    /\ UNCHANGED <<proc, dlock, lk, frame, wk, phase, panicked, heap, ret>>

\* ------------------------------------------------------------------- sched
\* the context a thread parks with, by the caller of sched
ParkCtx(pc) == IF pc = "y_sched" THEN "yielding" ELSE "sleep"

\* sched() without its intr_get() check
SchedFatal_locks_only(c) ==
    IF cpu[c].noff # 1 THEN "sched locks" ELSE "none"

\* sched() takes the fatal path for this core
SchedFatal(c) ==
    IF cpu[c].noff # 1 THEN "sched locks"
    ELSE IF cpu[c].sie THEN "sched interruptible"
    ELSE "none"

\* sched(), up to swtch: the checks, let intena = my_cpu.intena, and the
\* switch into the core's scheduler context; my_cpu and intena stay on the
\* parked thread's stack
sched(c) ==
    /\ Alive /\ cpu[c].pc \in {"y_sched", "s_sched"}
    /\ cpu[c].proc # None
    /\ LET p == cpu[c].proc
       IN IF SchedFatal(c) # "none"
          THEN /\ panicked' = SchedFatal(c)
               /\ UNCHANGED <<proc, cpu, frame>>
          ELSE /\ frame' = [frame EXCEPT ![p] =
                              [my_cpu |-> c, intena |-> cpu[c].intena]]
               /\ proc' = [proc EXCEPT ![p].context = ParkCtx(cpu[c].pc)]
               /\ cpu' = [cpu EXCEPT ![c].pc = "sret"]
               /\ panicked' = panicked
    /\ UNCHANGED <<plock, dlock, lk, wk, phase, heap, ret>>

\* sched(), after swtch returns into the thread: my_cpu.intena = intena,
\* my_cpu being the core the thread parked on
sched_restore(cs, p) ==
    [cs EXCEPT ![frame[p].my_cpu].intena = frame[p].intena]

\* ------------------------------------------------------------- the thread
\* a running thread gets interrupts enabled (return to user mode, or
\* intr_on in its trap path) outside yielding and sleep
thread_intr_on(c) ==
    /\ Alive /\ cpu[c].pc = "run" /\ ~cpu[c].sie
    /\ cpu' = [cpu EXCEPT ![c].sie = TRUE]
    /\ UNCHANGED <<proc, plock, dlock, lk, frame, wk, phase, panicked,
                   heap, ret>>

\* ---------------------------------------------------------------- yielding
\* Process::yielding up to the call of sched: self.data.acquire();
\* get_context_mut; set_state(RUNNABLE)
yielding(c) ==
    /\ Alive /\ cpu[c].pc = "run" /\ InRange(c)
    /\ LET p == cpu[c].proc
       IN /\ dlock[p] = None
          /\ dlock' = [dlock EXCEPT ![p] = c]
          /\ proc' = [proc EXCEPT ![p].state = "RUNNABLE"]
          /\ cpu' = [cpu EXCEPT ![c] =
                       [push_off(cpu[c]) EXCEPT !.pc = "y_sched"]]
    /\ UNCHANGED <<plock, lk, frame, wk, phase, panicked, heap, ret>>

\* ------------------------------------------------------------------- sleep
\* the caller of sleep takes the external lock it will hand over
sleep_caller(c) ==
    /\ Alive /\ cpu[c].pc = "run" /\ InRange(c)
    /\ lk = None
    /\ lk' = c
    /\ cpu' = [cpu EXCEPT ![c] = [push_off(cpu[c]) EXCEPT !.pc = "s_call"]]
    /\ UNCHANGED <<proc, plock, dlock, frame, wk, phase, panicked, heap, ret>>

\* Process::sleep, step 1: let mut guard = self.data.acquire()
sleep_acquire(c) ==
    /\ Alive /\ cpu[c].pc = "s_call" /\ InRange(c)
    /\ dlock[cpu[c].proc] = None
    /\ dlock' = [dlock EXCEPT ![cpu[c].proc] = c]
    /\ cpu' = [cpu EXCEPT ![c] = [push_off(cpu[c]) EXCEPT !.pc = "s_drop"]]
    /\ UNCHANGED <<proc, plock, lk, frame, wk, phase, panicked, heap, ret>>

\* Process::sleep, step 2: drop(lock)
sleep_drop(c) ==
    /\ Alive /\ cpu[c].pc = "s_drop" /\ InRange(c)
    /\ lk' = None
    /\ cpu' = [cpu EXCEPT ![c] = [pop_off(cpu[c]) EXCEPT !.pc = "s_chan"]]
    /\ UNCHANGED <<proc, plock, dlock, frame, wk, phase, panicked, heap, ret>>

\* Process::sleep, step 3: guard.channel = channel; guard.set_state(SLEEPING)
\* (both under the guard, with no step of this core in between)
sleep_mark(c, ch) ==
    /\ Alive /\ cpu[c].pc = "s_chan"
    /\ proc' = [proc EXCEPT ![cpu[c].proc].channel = ch,
                            ![cpu[c].proc].state = "SLEEPING"]
    /\ cpu' = [cpu EXCEPT ![c].pc = "s_sched"]
    /\ UNCHANGED <<plock, dlock, lk, frame, wk, phase, panicked, heap, ret>>

\* sleep that comes back without clearing the channel
sleep_untidy(d) == d

\* Process::sleep after sched returns: guard.channel = 0
sleep_tidy(d) == [d EXCEPT !.channel = 0]

\* swtch returns into a parked thread: the rest of sched (my_cpu.intena =
\* intena), then the rest of its caller: yielding does drop(guard), sleep
\* does guard.channel = 0 and drop(guard)
sched_return(c) ==
    /\ Alive /\ cpu[c].pc \in {"y_ret", "s_ret"} /\ InRange(c)
    /\ LET p  == cpu[c].proc
           cs == sched_restore(cpu, p)
       IN /\ proc' = IF cpu[c].pc = "s_ret"
                     THEN [proc EXCEPT ![p] = sleep_tidy(@)]
                     ELSE proc
          /\ dlock' = [dlock EXCEPT ![p] = None]
          /\ cpu' = [cs EXCEPT ![c] = [pop_off(cs[c]) EXCEPT !.pc = "run"]]
          /\ frame' = [frame EXCEPT ![p] = FrameNew]
    /\ UNCHANGED <<plock, lk, wk, phase, panicked, heap, ret>>

\* ------------------------------------------------------------------ wakeup
\* what a wakeup on channel ch does to a descriptor it holds the lock of
Woken(d, ch) ==
    IF d.state = "SLEEPING" /\ d.channel = ch
    THEN [d EXCEPT !.state = "RUNNABLE"]
    ELSE d

\* the thread of slot p has taken its own lock in sleep (step 1) and has not
\* come back from sleep: it is between step 1 and the switch, or parked
InSleep(p) ==
    \/ \E c \in Cores : /\ cpu[c].proc = p
                         /\ cpu[c].pc \in {"s_drop", "s_chan", "s_sched"}
    \/ proc[p].state = "SLEEPING"

\* an external wakeup(ch) begins its scan of the table; after: the slots
\* whose thread had already taken its own lock in sleep
wakeup_start(ch) ==
    /\ Alive /\ phase = "run" /\ ~wk.on
    /\ wk' = [on |-> TRUE, chan |-> ch, idx |-> 0,
              after |-> {p \in Slots : InSleep(p)}]
    /\ UNCHANGED <<proc, plock, dlock, lk, cpu, frame, phase, panicked,
                   heap, ret>>

\* the wakeup visits the next slot: it takes the process's own lock, looks
\* at state and channel, and releases the lock
wakeup_visit ==
    /\ Alive /\ wk.on
    /\ dlock[wk.idx] = None
    /\ proc' = [proc EXCEPT ![wk.idx] = Woken(@, wk.chan)]
    /\ wk' = IF wk.idx = NPROC - 1 THEN WkIdle
             ELSE [wk EXCEPT !.idx = wk.idx + 1]
    /\ UNCHANGED <<plock, dlock, lk, cpu, frame, phase, panicked, heap, ret>>

\* ---------------------------------------------------------------- freeproc
\* a freeproc that clears the whole descriptor, kstack included
freeproc_wipe(d) ==
    IF d.trapframe # 0
    THEN [ProcDataNew EXCEPT !.context = d.context]
    ELSE d

\* ProcData::freeproc: the descriptor it leaves
freeproc(d) ==
    IF d.trapframe # 0
    THEN [d EXCEPT !.trapframe = 0,
                   !.pagetable = FALSE,
                   !.size = 0,
                   !.pid = 0,
                   !.parent = None,
                   !.channel = 0,
                   !.killed = 0,
                   !.xstate = 0,
                   !.state = "UNUSED"]
    ELSE d

\* ProcData::freeproc: its calls of kfree and proc_freepagetable, for the
\* descriptor of slot i
freeproc_heap(h, d, i) ==
    IF d.trapframe # 0
    THEN [ kfree  |-> [h.kfree EXCEPT ![i] = @ + 1],
           ptfree |-> IF d.pagetable
                      THEN [h.ptfree EXCEPT ![i] = @ + 1]
                      ELSE h.ptfree ]
    ELSE h

\* the external wait path retires a zombie: freeproc under the process's lock
wait_freeproc(i) ==
    /\ Alive /\ phase = "run"
    /\ proc[i].state = "ZOMBIE"
    /\ dlock[i] = None
    /\ proc' = [proc EXCEPT ![i] = freeproc(@)]
    /\ heap' = freeproc_heap(heap, proc[i], i)
    /\ UNCHANGED <<plock, dlock, lk, cpu, frame, wk, phase, panicked, ret>>

\* -------------------------------------------------------------------- Next
Next ==
    \/ procinit
    \/ userinit
    \/ \E c \in Cores : scheduler_start(c)
    \/ \E c \in Cores : scheduler_scan(c)
    \/ \E c \in Cores : scheduler_return(c)
    \/ \E c \in Cores : scheduler_release(c)
    \/ \E c \in Cores : sched(c)
    \/ \E c \in Cores : thread_intr_on(c)
    \/ \E c \in Cores : yielding(c)
    \/ \E c \in Cores : sched_return(c)
    \/ \E c \in Cores : sleep_caller(c)
    \/ \E c \in Cores : sleep_acquire(c)
    \/ \E c \in Cores : sleep_drop(c)
    \/ \E c \in Cores, ch \in Channels : sleep_mark(c, ch)
    \/ \E ch \in Channels : wakeup_start(ch)
    \/ wakeup_visit
    \/ \E i \in Slots : wait_freeproc(i)

Spec == Init /\ [][Next]_vars

\* ------------------------------------- claims about scheduling and sleeping
\* the positions of a core that is inside a process's kernel thread
ThreadPcs == {"run", "y_sched", "y_ret", "s_call", "s_drop", "s_chan",
              "s_sched", "s_ret"}

\* core c has switched into the context of slot p, and p is RUNNING
RunningOn(c, p) ==
    /\ cpu[c].proc = p
    /\ cpu[c].pc \in ThreadPcs
    /\ proc[p].state = "RUNNING"

\* C1: in every reachable state at most one core is running a given slot
C1_one_core_per_slot ==
    \A p \in Slots : \A c1, c2 \in Cores :
       (RunningOn(c1, p) /\ RunningOn(c2, p)) => c1 = c2

\* slot p is parked in sleep on the channel of the wakeup in progress
ParkedOn(p) ==
    /\ proc[p].state = "SLEEPING"
    /\ proc[p].channel = wk.chan
    /\ proc[p].context = "sleep"
    /\ \A c \in Cores : cpu[c].proc # p

C4_intena_follows_thread ==
    [][\A c \in Cores :
          sched_return(c) => cpu'[c].intena = frame[cpu[c].proc].intena]_vars

\* the transitions of the state table
Table == { <<"RUNNABLE", "RUNNING">>, <<"RUNNING", "RUNNABLE">>,
           <<"RUNNING", "SLEEPING">>, <<"ZOMBIE", "UNUSED">> }

\* C5: every change of a slot's state made by the scheduler loop, yielding,
\* sleep or freeproc is a transition of the state table
C5_only_table_transitions ==
    [][(phase = "run" /\ wk' = wk)
          => \A p \in Slots :
                proc'[p].state # proc[p].state
                   => <<proc[p].state, proc'[p].state>> \in Table]_vars

\* one slot has gone to sleep from RUNNING and another was retired from ZOMBIE
C5_witness ==
    \E p, q \in Slots :
       /\ proc[p].state = "SLEEPING" /\ proc[p].context = "sleep"
       /\ proc[q].state = "UNUSED" /\ heap.kfree[q] = 1

\* C6: a scan switches into a slot exactly when it finds it RUNNABLE and
\* leaves every other slot unchanged; after the slot's thread calls yielding
\* the slot is RUNNABLE and control is back in the scheduler loop of that
\* core, with the core's current process cleared
C6_pass_and_yield ==
    [][\A c \in Cores :
          /\ scheduler_scan(c)
                => IF proc[cpu[c].idx].state = "RUNNABLE"
                   THEN /\ cpu'[c].proc = cpu[c].idx
                        /\ cpu'[c].pc \in ThreadPcs
                        /\ proc'[cpu[c].idx].state = "RUNNING"
                   ELSE /\ proc' = proc
                        /\ cpu'[c].pc \notin ThreadPcs
          /\ (sched(c) /\ cpu[c].pc = "y_sched")
                => /\ panicked' = "none"
                   /\ cpu'[c].pc = "sret"
                   /\ proc'[cpu[c].proc].state = "RUNNABLE"
          /\ scheduler_return(c)
                => /\ cpu'[c].proc = None
                   /\ cpu'[c].pc \notin ThreadPcs]_vars


\* ---------------------------------------------------------------- growproc
\* usize arithmetic, at the model's width
AsUsize(x) == x % (2 ^ UsizeBits)

\* the address-space component's uvmalloc(old, new): Some(new), or None when
\* it reports failure
uvmalloc(old, new, ok) == IF ok THEN new ELSE None

\* the address-space component's uvmdealloc(old, new): the size it leaves
uvmdealloc(old, new) == IF new >= old THEN old ELSE new

\* growproc that stores the size it asked for before it looks at uvmalloc's
\* answer
growproc_eager(d, n, ok) ==
    LET size == d.size
    IN IF n > 0
       THEN [ d |-> [d EXCEPT !.size = AsUsize(size + n)],
              r |-> IF uvmalloc(size, AsUsize(size + n), ok) # None
                    THEN "true" ELSE "false" ]
       ELSE IF n < 0
       THEN [ d |-> [d EXCEPT !.size = uvmdealloc(size, AsUsize(size + n))],
              r |-> "true" ]
       ELSE [ d |-> d, r |-> "true" ]

\* growproc that shrinks by one unit whatever n < 0 it is given
growproc_unit(d, n, ok) ==
    LET size == d.size
    IN IF n > 0
       THEN LET r == uvmalloc(size, AsUsize(size + n), ok)
            IN IF r # None
               THEN [ d |-> [d EXCEPT !.size = r], r |-> "true" ]
               ELSE [ d |-> d, r |-> "false" ]
       ELSE IF n < 0
       THEN [ d |-> [d EXCEPT !.size = uvmdealloc(size, AsUsize(size - 1))],
              r |-> "true" ]
       ELSE [ d |-> d, r |-> "true" ]

\* ProcData::growproc(n), with the page table present: the descriptor it
\* leaves and the value it returns; ok is the outcome of uvmalloc
growproc(d, n, ok) ==
    LET size == d.size
    IN IF n > 0
       THEN LET r == uvmalloc(size, AsUsize(size + n), ok)
            IN IF r # None
               THEN [ d |-> [d EXCEPT !.size = r], r |-> "true" ]
               ELSE [ d |-> d, r |-> "false" ]
       ELSE IF n < 0
       THEN [ d |-> [d EXCEPT !.size = uvmdealloc(size, AsUsize(size + n))],
              r |-> "true" ]
       ELSE [ d |-> d, r |-> "true" ]

\* ----------------------------------------------------------- proc_pagetable
\* PageTable::uvmcreate(): an empty address space (its root table allocated),
\* or None (ok false)
uvmcreate(ok) ==
    [ ok    |-> ok,
      space |-> IF ok THEN [ tables |-> TRUE, maps |-> {} ] ELSE NoSpace ]

\* PageTable::mappages(va, pa, PGSIZE, perm) on address space sp: whether it
\* succeeded, and the address space it leaves
mappages(sp, va, pa, ok) ==
    [ ok    |-> ok,
      space |-> IF ok THEN [sp EXCEPT !.maps = @ \cup {<<va, pa>>}] ELSE sp ]

\* PageTable::uvmfree(0): no user memory to unmap (size 0), then the
\* page-table pages are freed; a table that still holds a leaf mapping either
\* stops the kernel (freewalk's leaf check) or is freed with its entries,
\* as the address-space component decides (leaf)
uvmfree(sp, leaf) ==
    IF sp.maps # {} /\ leaf = "panic"
    THEN [ space |-> sp, fatal |-> "freewalk: leaf" ]
    ELSE [ space |-> NoSpace, fatal |-> "none" ]

\* the None that proc_pagetable returns after uvmfree, if uvmfree returned
Torn(u) ==
    [ r     |-> IF u.fatal = "none" THEN "None" ELSE "none",
      space |-> u.space,
      fatal |-> u.fatal ]

\* ProcData::proc_pagetable on descriptor d: what it returns, what is left
\* of the address space it built, and the fatal path taken if any; c, m1, m2
\* are the outcomes of uvmcreate and of the two mappages calls
proc_pagetable(d, c, m1, m2, leaf) ==
    LET t0 == uvmcreate(c)
    IN IF ~t0.ok
       THEN [ r |-> "None", space |-> t0.space, fatal |-> "none" ]
       ELSE LET t1 == mappages(t0.space, "TRAMPOLINE", 1, m1)
            IN IF ~t1.ok
               THEN Torn(uvmfree(t1.space, leaf))
               ELSE LET t2 == mappages(t1.space, "TRAPFRAME", d.trapframe, m2)
                    IN IF ~t2.ok
                       THEN Torn(uvmfree(t2.space, leaf))
                       ELSE [ r |-> "Some", space |-> t2.space,
                              fatal |-> "none" ]

\* ------------------------------------------- ProcData operations, one by one
States == {"UNUSED", "USED", "SLEEPING", "RUNNABLE", "RUNNING", "ZOMBIE",
           "ALLOCATED"}

\* the descriptors the operations are applied to: any state and any field
\* values, with the resources a slot can hold after the external allocation
\* path ran or failed part-way (the trapframe page is allocated before the
\* address space, and user memory needs an address space)
Descriptors(i) ==
    { d \in [ state     : States,
              channel   : Channels \cup {0},
              killed    : {0, 1},
              xstate    : {0, 1},
              pid       : {0, i + 1},
              parent    : {None, 0},
              kstack    : {KstackOf(i)},
              size      : 0 .. MaxSize,
              pagetable : BOOLEAN,
              trapframe : {0, TrapframePage(i)},
              context   : {ContextNew, "entry", "yielding"} ] :
        /\ d.pagetable => d.trapframe # 0
        /\ ~d.pagetable => d.size = 0 }

InitData ==
    /\ \E d \in Descriptors(0) :
          proc = [i \in Slots |->
                    IF i = 0 THEN d
                    ELSE [ProcDataNew EXCEPT !.kstack = KstackOf(i)]]
    /\ plock = [i \in Slots |-> None]
    /\ dlock = [i \in Slots |-> None]
    /\ lk = None
    /\ cpu = [c \in Cores |-> CpuNew]
    /\ frame = [i \in Slots |-> FrameNew]
    /\ wk = WkIdle
    /\ phase = "data"
    /\ panicked = "none"
    /\ heap = HeapNew
    /\ ret = RetNone

\* freeproc on the descriptor of slot i
call_freeproc(i) ==
    /\ Alive /\ phase = "data"
    /\ proc' = [proc EXCEPT ![i] = freeproc(@)]
    /\ heap' = freeproc_heap(heap, proc[i], i)
    /\ ret' = [ op |-> "freeproc", slot |-> i, n |-> 0, r |-> "unit",
                before |-> proc[i], heap |-> heap, space |-> NoSpace ]
    /\ UNCHANGED <<plock, dlock, lk, cpu, frame, wk, phase, panicked>>

\* growproc(n) on the descriptor of slot i; self.pagetable.as_mut().unwrap()
\* is fatal without a page table
call_growproc(i, n, ok) ==
    /\ Alive /\ phase = "data"
    /\ proc[i].size + n <= MaxSize
    /\ IF proc[i].pagetable
       THEN /\ proc' = [proc EXCEPT ![i] = growproc(@, n, ok).d]
            /\ ret' = [ op |-> "growproc", slot |-> i, n |-> n,
                        r |-> growproc(proc[i], n, ok).r,
                        before |-> proc[i], heap |-> heap,
                        space |-> NoSpace ]
            /\ panicked' = panicked
       ELSE /\ panicked' = "unwrap on None"
            /\ UNCHANGED <<proc, ret>>
    /\ UNCHANGED <<plock, dlock, lk, cpu, frame, wk, phase, heap>>

\* the ways the address-space component treats a leaf left in a table it frees
LeafOutcomes == {"panic", "discard"}

\* proc_pagetable on the descriptor of slot i
call_proc_pagetable(i, c, m1, m2, leaf) ==
    /\ Alive /\ phase = "data"
    /\ LET o == proc_pagetable(proc[i], c, m1, m2, leaf)
       IN /\ panicked' = o.fatal
          /\ ret' = IF o.fatal = "none"
                    THEN [ op |-> "proc_pagetable", slot |-> i, n |-> 0,
                           r |-> o.r, before |-> proc[i], heap |-> heap,
                           space |-> o.space ]
                    ELSE ret
    /\ UNCHANGED <<proc, plock, dlock, lk, cpu, frame, wk, phase, heap>>

NextData ==
    \/ \E i \in Slots : call_freeproc(i)
    \/ \E i \in Slots, c, m1, m2 \in BOOLEAN, leaf \in LeafOutcomes :
          call_proc_pagetable(i, c, m1, m2, leaf)
    \/ \E i \in Slots, n \in (-MaxSize) .. MaxSize, ok \in BOOLEAN :
          call_growproc(i, n, ok)

SpecData == InitData /\ [][NextData]_vars

\* ------------------------------------------------- claims about ProcData
\* C7: growproc(n) with n > 0, when uvmalloc reports failure, returns false
\* and leaves size and every other field of the process data as they were
C7_growproc_failure ==
    [][\A i \in Slots, n \in 1 .. MaxSize :
          (call_growproc(i, n, FALSE) /\ proc[i].pagetable)
             => /\ ret'.op = "growproc" /\ ret'.r = "false"
                /\ proc' = proc
                /\ panicked' = "none"]_vars

\* a failed growth of a descriptor was reported
C7_witness ==
    /\ ret.op = "growproc" /\ ret.n > 0 /\ ret.r = "false"
    /\ ret.before.size > 0

\* C8: growproc(n) with n < 0 and |n| <= size returns true and leaves size
\* equal to the size before the call plus n
C8_growproc_shrink ==
    (ret.op = "growproc" /\ ret.n < 0 /\ (-ret.n) <= ret.before.size)
       => /\ ret.r = "true"
          /\ proc[ret.slot].size = ret.before.size + ret.n
          /\ proc[ret.slot] = [ret.before EXCEPT !.size = proc[ret.slot].size]

\* a descriptor was shrunk by more than one unit, not to zero
C8_witness ==
    /\ ret.op = "growproc" /\ ret.n < -1 /\ ret.r = "true"
    /\ proc[ret.slot].size = ret.before.size + ret.n
    /\ proc[ret.slot].size > 0

\* C9: after freeproc every field of the process data but kstack equals its
\* value in ProcData::new()
C9_freeproc_fresh ==
    ret.op = "freeproc"
       => proc[ret.slot] = [ProcDataNew EXCEPT !.kstack = ret.before.kstack]

\* C10: freeproc on any descriptor ends with state UNUSED, pagetable and
\* trapframe null, and each resource that was held released exactly once
C10_freeproc_retires ==
    ret.op = "freeproc"
       => /\ proc[ret.slot].state = "UNUSED"
          /\ ~proc[ret.slot].pagetable
          /\ proc[ret.slot].trapframe = 0
          /\ heap.kfree[ret.slot] - ret.heap.kfree[ret.slot]
                = IF ret.before.trapframe # 0 THEN 1 ELSE 0
          /\ heap.ptfree[ret.slot] - ret.heap.ptfree[ret.slot]
                = IF ret.before.pagetable THEN 1 ELSE 0


\* ------------------------------------------------------- sched, on its own
\* a thread of slot 0 on core 0 about to call sched, from yielding or from
\* sleep, with any nesting count and any interrupt state
InitSched ==
    /\ \E n \in (-MaxDrift) .. MaxDrift, e \in BOOLEAN, s \in BOOLEAN,
          pc \in {"y_sched", "s_sched"} :
          /\ cpu = [c \in Cores |->
                      IF c = 0
                      THEN [ proc |-> 0, noff |-> n, intena |-> e, sie |-> s,
                             pc |-> pc, idx |-> 0 ]
                      ELSE [CpuNew EXCEPT !.pc = "scan", !.sie = TRUE]]
          /\ proc = [i \in Slots |->
                       IF i = 0
                       THEN [ProcDataNew EXCEPT
                               !.state = IF pc = "y_sched" THEN "RUNNABLE"
                                         ELSE "SLEEPING",
                               !.channel = IF pc = "y_sched" THEN 0 ELSE 1,
                               !.pid = 1, !.size = 1, !.pagetable = TRUE,
                               !.trapframe = TrapframePage(0),
                               !.kstack = KstackOf(0),
                               !.context = "entry"]
                       ELSE [ProcDataNew EXCEPT !.kstack = KstackOf(i)]]
    /\ plock = [i \in Slots |-> IF i = 0 THEN 0 ELSE None]
    /\ dlock = [i \in Slots |-> IF i = 0 THEN 0 ELSE None]
    /\ lk = None
    /\ frame = [i \in Slots |-> FrameNew]
    /\ wk = WkIdle
    /\ phase = "run"
    /\ panicked = "none"
    /\ heap = HeapNew
    /\ ret = RetNone

NextSched == \E c \in Cores : sched(c)

SpecSched == InitSched /\ [][NextSched]_vars

\* C3: sched takes the fatal path, without switching, whenever the core's
\* lock-nesting counter is not 1 and whenever interrupts are enabled; it
\* switches only when the counter is 1 and interrupts are disabled
C3_sched_checks ==
    [][\A c \in Cores :
          sched(c)
             => IF cpu[c].noff # 1 \/ cpu[c].sie
                THEN /\ panicked' # "none"
                     /\ proc' = proc /\ cpu' = cpu /\ frame' = frame
                ELSE /\ panicked' = "none"
                     /\ cpu'[c].pc = "sret"
                     /\ proc'[cpu[c].proc].context = ParkCtx(cpu[c].pc)]_vars

\* sched was called with one lock held and interrupts enabled, and halted
C3_witness ==
    /\ panicked = "sched interruptible"
    /\ \E c \in Cores : /\ cpu[c].pc \in {"y_sched", "s_sched"}
                         /\ cpu[c].noff = 1 /\ cpu[c].sie


\* ------------------------------------------------------ claims about kstack
\* C11: procinit gives every slot a distinct kstack, strictly increasing with
\* the slot index, consecutive slots differing by the per-slot kernel-stack
\* size (a whole number of pages)
C11_kstack_layout ==
    phase # "procinit"
       => \A i \in Slots :
             (i + 1) \in Slots
                => /\ proc[i].kstack < proc[i + 1].kstack
                   /\ (proc[i + 1].kstack - proc[i].kstack) % PGSIZE = 0

InitWoken ==
    /\ \E c0 \in Cores, e \in BOOLEAN, ch \in Channels,
          k \in [Slots -> {"UNUSED", "RUNNABLE"}] :
          /\ proc = [i \in Slots |->
                       IF i = 0
                       THEN [Created([ProcDataNew EXCEPT
                                        !.kstack = KstackOf(0)],
                                     0, "RUNNABLE")
                               EXCEPT !.channel = ch, !.context = "sleep"]
                       ELSE Created([ProcDataNew EXCEPT
                                       !.kstack = KstackOf(i)], i, k[i])]
          /\ dlock = [i \in Slots |-> IF i = 0 THEN c0 ELSE None]
          /\ frame = [i \in Slots |->
                        IF i = 0 THEN [my_cpu |-> c0, intena |-> e]
                        ELSE FrameNew]
    /\ plock = [i \in Slots |-> None]
    /\ lk = None
    /\ cpu = [c \in Cores |->
                [CpuNew EXCEPT !.pc = "scan", !.sie = TRUE,
                               !.noff = IF c = BootCpu THEN -NPROC ELSE 0]]
    /\ wk = WkIdle
    /\ phase = "run"
    /\ panicked = "none"
    /\ heap = HeapNew
    /\ ret = RetNone

NextWoken ==
    \/ \E c \in Cores : scheduler_scan(c)
    \/ \E c \in Cores : scheduler_return(c)
    \/ \E c \in Cores : scheduler_release(c)
    \/ \E c \in Cores : sched(c)
    \/ \E c \in Cores : thread_intr_on(c)
    \/ \E c \in Cores : yielding(c)
    \/ \E c \in Cores : sched_return(c)
    \/ \E c \in Cores : sleep_caller(c)
    \/ \E c \in Cores : sleep_acquire(c)
    \/ \E c \in Cores : sleep_drop(c)
    \/ \E c \in Cores, ch \in Channels : sleep_mark(c, ch)

SpecWoken == InitWoken /\ [][NextWoken]_vars

WokenParked(p) ==
    /\ proc[p].state = "RUNNABLE"
    /\ proc[p].context = "sleep"
    /\ \A c \in Cores : cpu[c].proc # p

C15_sched_never_fatal ==
    /\ panicked \notin {"sched locks", "sched interruptible"}
    /\ \A c \in Cores :
          cpu[c].pc \in {"y_sched", "s_sched"}
             => cpu[c].noff = 1 /\ ~cpu[c].sie

\* C16: state and channel are read and written only under the process's own
\* lock, the same lock on every path: the lock yielding and sleep acquire is
\* the lock the scheduler holds when it tests and sets the state and across
\* the switch
C16_one_process_lock ==
    [][\A c \in Cores :
          /\ yielding(c) => dlock'[cpu[c].proc] = c
          /\ \A ch \in Channels :
                sleep_mark(c, ch) => dlock[cpu[c].proc] = c
          /\ (scheduler_scan(c) /\ proc[cpu[c].idx].state = "RUNNABLE")
                => dlock'[cpu[c].idx] = c]_vars

\* C17: acquisitions and releases of a slot's lock are paired: a core
\* releases only a lock it holds, and its nesting counter never drops below
\* zero, in procinit and in every iteration of the scheduler loop
C17_paired_release ==
    [][/\ \A c \in Cores :
             /\ scheduler_return(c) => plock[cpu[c].idx] = c
             /\ scheduler_release(c) => plock[cpu[c].idx] = c
       /\ \A c \in Cores : cpu'[c].noff >= 0]_vars

\* slot p has parked through sleep or yielding and the scheduler of the core
\* it ran on has finished its post-switch step for the slot
ParkedDone(p) ==
    /\ proc[p].context \in {"sleep", "yielding"}
    /\ proc[p].state \in {"SLEEPING", "RUNNABLE"}
    /\ \A c \in Cores : /\ cpu[c].proc # p
                        /\ ~(cpu[c].idx = p /\ cpu[c].pc \in {"sret", "release"})

\* C18: once a process has parked through sleep or yielding and the
\* scheduler has completed its post-switch step for the slot, no core holds
\* the process's own lock, so a wakeup can take it
C18_parked_lock_free ==
    \A p \in Slots : ParkedDone(p) => dlock[p] = None

\* ---------------------------------------------------------------- fairness
\* each core's scheduler loop keeps running, every running process
\* eventually calls yielding or sleep, and a thread inside yielding, sleep
\* or sched keeps going
Fairness ==
    /\ WF_vars(procinit \/ userinit)
    /\ \A c \in Cores :
          /\ WF_vars(scheduler_start(c) \/ scheduler_scan(c)
                        \/ scheduler_return(c) \/ scheduler_release(c))
          /\ WF_vars(yielding(c) \/ sleep_caller(c))
          /\ WF_vars(sched(c) \/ sched_return(c) \/ sleep_acquire(c)
                        \/ sleep_drop(c)
                        \/ \E ch \in Channels : sleep_mark(c, ch))

SpecFair == Init /\ [][Next]_vars /\ Fairness

\* some core's nesting counter has left the range the model follows
OutOfRange == \E c \in Cores : ~InRange(c)

\* C19: under weak fairness of each scheduler loop, with every running
\* process eventually yielding or sleeping, a slot that is Runnable is
\* eventually Running
C19_runnable_runs ==
    \A p \in Slots :
       (proc[p].state = "RUNNABLE") ~> (proc[p].state = "RUNNING" \/ OutOfRange)

\* the amounts growproc is called with
GrowAmounts == (0 - MaxSize) .. MaxSize

\* C20: once procinit has completed, no step of the scheduler loop, yielding,
\* sleep or the retiring of a zombie changes the kstack of any slot, and
\* freeproc and growproc applied to any descriptor the kernel reaches leave
\* its kstack as it was
C20_kstack_fixed ==
    /\ [][phase # "procinit"
             => \A p \in Slots : proc'[p].kstack = proc[p].kstack]_vars
    /\ [](\A p \in Slots :
             /\ freeproc(proc[p]).kstack = proc[p].kstack
             /\ proc[p].pagetable
                   => \A n \in GrowAmounts, ok \in BOOLEAN :
                         growproc(proc[p], n, ok).d.kstack = proc[p].kstack)

\* a zombie was retired by freeproc and a process has parked through
\* yielding or sleep, and every slot still has the kstack procinit gave it
C20_witness ==
    /\ phase = "run"
    /\ \E p \in Slots : heap.kfree[p] > 0 /\ proc[p].state = "UNUSED"
    /\ \E q \in Slots : /\ proc[q].context \in {"yielding", "sleep"}
                        /\ proc[q].state \in {"RUNNABLE", "SLEEPING"}
    /\ \A p \in Slots : proc[p].kstack = KstackOf(p) /\ proc[p].kstack # 0

=============================================================================
